---- MODULE Spec2Model ----
(***************************************************************************)
(* Model of RoleGuard.canActivate (src/src/guards/role.guard.ts): the      *)
(* role-level gate that reads a role level from the Redis cache and, on a  *)
(* miss, from the authCode table, then compares it with the minimum of the *)
(* levels declared on the handler.                                         *)
(*                                                                         *)
(* JavaScript values are tagged records: [t |-> "null"], [t |-> "str", v], *)
(* [t |-> "num", v], [t |-> "nan"], [t |-> "inf"], [t |-> "undefined"],    *)
(* [t |-> "arr", v].  Strings are sequences of one-character strings so    *)
(* that template-literal concatenation and Number() parsing are computed.  *)
(***************************************************************************)
EXTENDS Integers, Sequences, FiniteSets, TLC

VARIABLES store, cache, calls, populated, envSteps, minCheck,
          users, upd, posts, comments, tasks, onDelete

\* State of the guard and its collaborators, of the user service, of the
\* post-comment service, and of everything but the guard.
guardVars == <<store, cache, calls, populated, envSteps>>
userVars == <<users, upd>>
commentVars == <<posts, comments, tasks, onDelete>>
svcVars == <<minCheck, userVars, commentVars>>

vars == <<store, cache, calls, populated, envSteps, minCheck,
          users, upd, posts, comments, tasks, onDelete>>

-----------------------------------------------------------------------------
(* Bounds and input sets *)

\* Role levels held by authCode rows are 0..MaxRoleLevel.
MaxRoleLevel == 2

\* Handlers declare up to MaxRequired levels, each in 1..MaxDeclared (the
\* threshold run of SpecMin).
MaxRequired == 3
MaxDeclared == 5

\* Number of changes the environment (other writers of the authCode table and
\* of Redis) makes in one behaviour of SpecEnv.
MaxEnvSteps == 1

RoleLevels == 0..MaxRoleLevel

\* Concurrent request-handling tasks.
Procs == {"p1", "p2"}

\* (user.id, user.auth_code) of the decoded token.  Two of the pairs differ
\* only in where the "_" falls.
Pairs ==
  { << <<"a", "_", "b">>, <<"c">> >>,
    << <<"a">>, <<"b", "_", "c">> >>,
    << <<"a">>, <<"c">> >> }

Undefined == [t |-> "undefined"]
Null == [t |-> "null"]
NaN == [t |-> "nan"]
Infinity == [t |-> "inf"]
Num(n) == [t |-> "num", v |-> n]
Str(s) == [t |-> "str", v |-> s]
Arr(s) == [t |-> "arr", v |-> s]

\* What reflector.get(Roles, handler) can return: no metadata, an empty
\* array, or an array of levels in some order.
RolesOptions == {Undefined, Arr(<<>>), Arr(<<3, 1, 2>>)}

\* Values another writer may leave under a role key: not integer text.
Garbage == {Str(<<"x">>), Str(<<"1", "x">>)}

NoRow == [t |-> "null"]

-----------------------------------------------------------------------------
(* Pure functions of the guard *)

\* role.guard.ts:27  if (!rolesLevel) return true;   (an array is truthy)
NoRolesNever(rolesLevel) == FALSE
NoRoles(rolesLevel) == rolesLevel.t = "undefined"

RECURSIVE SeqMin(_)
SeqMin(s) ==
  IF Len(s) = 1 THEN s[1]
  ELSE LET m == SeqMin(Tail(s)) IN IF s[1] < m THEN s[1] ELSE m

\* role.guard.ts:28  Math.min(...rolesLevel); Math.min() is Infinity
MathMinFirst(rolesLevel) ==
  IF rolesLevel.t = "arr" /\ rolesLevel.v # <<>>
  THEN Num(rolesLevel.v[1]) ELSE Infinity
MathMin(rolesLevel) ==
  IF rolesLevel.t = "arr" /\ rolesLevel.v # <<>>
  THEN Num(SeqMin(rolesLevel.v)) ELSE Infinity

\* role.guard.ts:35  `role_${id}_${authCode}`
CacheKey(id, authCode) ==
  <<"r", "o", "l", "e", "_">> \o id \o <<"_">> \o authCode

Keys == {CacheKey(pr[1], pr[2]) : pr \in Pairs}

Digits == <<"0", "1", "2", "3", "4", "5", "6", "7", "8", "9">>
IsDigit(c) == \E i \in 1..10 : Digits[i] = c
DigitVal(c) == (CHOOSE i \in 1..10 : Digits[i] = c) - 1

RECURSIVE ParseDigits(_, _)
ParseDigits(s, acc) ==
  IF s = <<>> THEN acc ELSE ParseDigits(Tail(s), acc * 10 + DigitVal(s[1]))

RECURSIVE ToStr(_)
\* String(n) for a non-negative integer: what Redis keeps for a number.
ToStr(n) ==
  IF n < 10 THEN <<Digits[n + 1]>> ELSE ToStr(n \div 10) \o <<Digits[(n % 10) + 1]>>

\* role.guard.ts:58  Number(cachedRole): a number is itself, "" and null are
\* 0, decimal digits are their value, any other text is NaN.
Number(x) ==
  CASE x.t = "num" -> x
    [] x.t = "null" -> Num(0)
    [] x.t = "str" ->
         IF x.v = <<>> THEN Num(0)
         ELSE IF \A i \in 1..Len(x.v) : IsDigit(x.v[i])
              THEN Num(ParseDigits(x.v, 0))
              ELSE NaN

\* role.guard.ts:40  !cachedRole : null and "" are falsy, every other string
\* (also "0") is truthy.
FalsyZero(x) == x.t = "null" \/ (x.t = "str" /\ x.v \in {<<>>, <<"0">>})
Falsy(x) == x.t = "null" \/ (x.t = "str" /\ x.v = <<>>)

\* role.guard.ts:58  a < b on numbers: false when either side is NaN.
LessOrEqual(a, b) ==
  CASE a.t = "nan" \/ b.t = "nan" -> FALSE
    [] a.t = "num" /\ b.t = "num" -> a.v <= b.v
    [] a.t = "num" /\ b.t = "inf" -> TRUE
    [] OTHER -> FALSE
Greater(a, b) ==
  CASE a.t = "nan" \/ b.t = "nan" -> FALSE
    [] a.t = "num" /\ b.t = "num" -> a.v > b.v
    [] OTHER -> FALSE
Less(a, b) ==
  CASE a.t = "nan" \/ b.t = "nan" -> FALSE
    [] a.t = "num" /\ b.t = "num" -> a.v < b.v
    [] a.t = "num" /\ b.t = "inf" -> TRUE
    [] OTHER -> FALSE

\* role.guard.ts:58-62  the throw or the return true that ends the call
DecideGreater(cachedRole, rolesLevel) ==
  IF Greater(Number(cachedRole), MathMin(rolesLevel))
  THEN "Insufficient permissions" ELSE "allow"
DecideLessOrEqual(cachedRole, rolesLevel) ==
  IF LessOrEqual(Number(cachedRole), MathMin(rolesLevel))
  THEN "Insufficient permissions" ELSE "allow"
Decide(cachedRole, rolesLevel) ==
  IF Less(Number(cachedRole), MathMin(rolesLevel))
  THEN "Insufficient permissions" ELSE "allow"

-----------------------------------------------------------------------------
(* Collaborators *)

\* redisService.client.get(key): the stored text, or null
RedisGet(c, key) == c[key]

\* redisService.set(key, value): the value is kept as its text
RedisSet(c, key, value) == [c EXCEPT ![key] = Str(ToStr(value))]

\* prisma.authCode.findUnique({where: {id, authCode}}): the row or null
FindUniqueAny(s, id, authCode) ==
  IF \E pr \in Pairs : pr[1] = id /\ s[pr].t = "num"
  THEN s[CHOOSE pr \in Pairs : pr[1] = id /\ s[pr].t = "num"]
  ELSE NoRow
FindUnique(s, id, authCode) == s[<<id, authCode>>]

-----------------------------------------------------------------------------
(* State *)

Idle ==
  [pc |-> "idle", id |-> <<>>, authCode |-> <<>>, rolesLevel |-> Undefined,
   got |-> Undefined, auth |-> Undefined, cachedRole |-> Undefined,
   result |-> "none", ops |-> <<>>, after |-> FALSE]

\* No threshold computed yet (the isolated run of lines 28 and 58).
NoCheck ==
  [rolesLevel |-> Undefined, minRoleLevel |-> Undefined,
   cachedRole |-> Undefined, outcome |-> "none"]

Bool(b) == [t |-> "bool", v |-> b]

\* bcrypt.hash(s, 10): a digest, never the text it was computed from.
BcryptHash(s) == [t |-> "bcrypt", of |-> s]

UserIds == {"u1", "u2"}
NoUser == [t |-> "null"]

\* The user table: u1 exists with a hashed password, u2 does not exist.
UsersInit ==
  [u \in UserIds |->
     IF u = "u1"
     THEN [t |-> "row", password |-> BcryptHash(<<"o">>),
           fullName |-> Str(<<"n", "0">>), isActive |-> Bool(TRUE)]
     ELSE NoUser]

\* No update call made yet.
UpdIdle ==
  [pc |-> "idle", fn |-> "none", userId |-> "", submitted |-> Undefined,
   data |-> [password |-> Undefined, fullName |-> Undefined,
             isActive |-> Undefined],
   hashing |-> Undefined, written |-> Undefined, result |-> "none"]

PostIds == {"post1", "post2"}
AuthorIds == {"u1", "u2"}

\* Comment ids are handed out in the order 1, 2, ... and never reused.
MaxComments == 2
CommentIds == 1..MaxComments

NoComment == [t |-> "free"]
TaskIdle ==
  [pc |-> "idle", op |-> "none", authorId |-> Undefined, postId |-> Undefined,
   replyToId |-> Undefined, commentId |-> Undefined,
   parentComment |-> Undefined, commentExist |-> Undefined,
   result |-> "none"]

\* The rest of the application at rest.
SvcInit ==
  /\ minCheck = NoCheck
  /\ users = UsersInit
  /\ upd = UpdIdle
  /\ posts = [p \in PostIds |-> 0]
  /\ comments = [c \in CommentIds |-> NoComment]
  /\ tasks = [t \in Procs |-> TaskIdle]
  /\ onDelete = "SetNull"

Init ==
  /\ store \in [Pairs -> {NoRow} \cup {Num(n) : n \in RoleLevels}]
  /\ cache = [k \in Keys |-> Null]
  /\ calls = [p \in Procs |-> Idle]
  /\ populated = [pr \in Pairs |-> Null]
  /\ envSteps = 0
  /\ SvcInit

\* The call ends: a thrown exception or the returned true.
Finish(c, result) == [c EXCEPT !.pc = "done", !.result = result]

-----------------------------------------------------------------------------
(* canActivate, one action per run between two awaits *)

\* role.guard.ts:21-37: read the metadata, return true when there is none,
\* else build the key and issue the cache get.
Start(p, pr, rolesLevel) ==
  /\ calls[p].pc \in {"idle", "done"}
  /\ LET c == [Idle EXCEPT !.id = pr[1], !.authCode = pr[2],
                           !.rolesLevel = rolesLevel,
                           !.after = (populated[pr].t = "num")]
     IN calls' = [calls EXCEPT ![p] =
                    IF NoRoles(rolesLevel) THEN Finish(c, "allow")
                    ELSE [c EXCEPT !.pc = "get"]]
  /\ UNCHANGED <<store, cache, populated, envSteps, svcVars>>

\* role.guard.ts:36-40 and 58-62: the get resolves; on a truthy value the
\* comparison decides the call, on a falsy one the table lookup is issued.
CacheGet(p) ==
  /\ calls[p].pc = "get"
  /\ LET c == calls[p]
         v == RedisGet(cache, CacheKey(c.id, c.authCode))
         c1 == [c EXCEPT !.got = v, !.cachedRole = v, !.ops = Append(@, "get")]
     IN calls' = [calls EXCEPT ![p] =
                    IF Falsy(v) THEN [c1 EXCEPT !.pc = "find"]
                    ELSE Finish(c1, Decide(v, c.rolesLevel))]
  /\ UNCHANGED <<store, cache, populated, envSteps, svcVars>>

\* role.guard.ts:41-52: the lookup resolves; no row throws 'Invalid
\* authentication', a row issues the cache set.
FindAuth(p) ==
  /\ calls[p].pc = "find"
  /\ LET c == calls[p]
         auth == FindUnique(store, c.id, c.authCode)
         c1 == [c EXCEPT !.auth = auth, !.ops = Append(@, "find")]
     IN calls' = [calls EXCEPT ![p] =
                    IF auth.t = "null" THEN Finish(c1, "Invalid authentication")
                    ELSE [c1 EXCEPT !.pc = "set"]]
  /\ UNCHANGED <<store, cache, populated, envSteps, svcVars>>

\* role.guard.ts:52-62: the set resolves; cachedRole = auth.roleLevel and the
\* comparison decides the call.
CacheSet(p) ==
  /\ calls[p].pc = "set"
  /\ LET c == calls[p]
         pr == <<c.id, c.authCode>>
         c1 == [c EXCEPT !.cachedRole = c.auth, !.ops = Append(@, "set")]
     IN /\ cache' = RedisSet(cache, CacheKey(c.id, c.authCode), c.auth.v)
        /\ populated' = IF populated[pr].t = "null"
                        THEN [populated EXCEPT ![pr] = c.auth]
                        ELSE populated
        /\ calls' = [calls EXCEPT ![p] = Finish(c1, Decide(c.auth, c.rolesLevel))]
  /\ UNCHANGED <<store, envSteps, svcVars>>

Next ==
  \/ \E p \in Procs, pr \in Pairs, r \in RolesOptions : Start(p, pr, r)
  \/ \E p \in Procs : CacheGet(p)
  \/ \E p \in Procs : FindAuth(p)
  \/ \E p \in Procs : CacheSet(p)

\* Concurrent guard calls over an authCode table nobody changes and a cache
\* only the guard writes.
Spec == Init /\ [][Next]_vars

-----------------------------------------------------------------------------
(* The environment: unreachable backends and other writers *)

\* role.guard.ts:36-52: no await of canActivate is inside a try, so a
\* rejected get, findUnique or set ends the call with that rejection.
RejectSwallowed(c, op) ==
  [c EXCEPT !.pc = "done", !.result = "allow", !.ops = Append(@, op)]
Reject(c, op) ==
  [c EXCEPT !.pc = "done", !.result = "error", !.ops = Append(@, op)]

GetFails(p) ==
  /\ calls[p].pc = "get"
  /\ calls' = [calls EXCEPT ![p] = Reject(@, "get")]
  /\ UNCHANGED <<store, cache, populated, envSteps, svcVars>>

FindFails(p) ==
  /\ calls[p].pc = "find"
  /\ calls' = [calls EXCEPT ![p] = Reject(@, "find")]
  /\ UNCHANGED <<store, cache, populated, envSteps, svcVars>>

SetFails(p) ==
  /\ calls[p].pc = "set"
  /\ calls' = [calls EXCEPT ![p] = Reject(@, "set")]
  /\ UNCHANGED <<store, cache, populated, envSteps, svcVars>>

\* A session ends or a role changes: the row is deleted, created or gets
\* another roleLevel (outside the guard).
StoreChange(pr, row) ==
  /\ envSteps < MaxEnvSteps
  /\ store[pr] # row
  /\ store' = [store EXCEPT ![pr] = row]
  /\ envSteps' = envSteps + 1
  /\ UNCHANGED <<cache, calls, populated, svcVars>>

\* Another writer of the Redis instance leaves text that is no integer.
CacheCorrupt(key, text) ==
  /\ envSteps < MaxEnvSteps
  /\ cache' = [cache EXCEPT ![key] = text]
  /\ envSteps' = envSteps + 1
  /\ UNCHANGED <<store, calls, populated, svcVars>>

\* The task whose sequential calls are followed under SpecEnv.
EnvProcs == {"p1"}

NextEnv ==
  \/ \E p \in EnvProcs, pr \in Pairs, r \in RolesOptions : Start(p, pr, r)
  \/ \E p \in EnvProcs : CacheGet(p)
  \/ \E p \in EnvProcs : FindAuth(p)
  \/ \E p \in EnvProcs : CacheSet(p)
  \/ \E p \in EnvProcs : GetFails(p)
  \/ \E p \in EnvProcs : FindFails(p)
  \/ \E p \in EnvProcs : SetFails(p)
  \/ \E pr \in Pairs, row \in {NoRow} \cup {Num(n) : n \in RoleLevels} :
        StoreChange(pr, row)
  \/ \E key \in Keys, text \in Garbage : CacheCorrupt(key, text)

\* Sequential guard calls of one task while backends fail, rows change and
\* the cache is written by others.
SpecEnv == Init /\ [][NextEnv]_vars

-----------------------------------------------------------------------------
(* Vocabulary of the properties *)

Done(p) == calls[p].pc = "done"
PairOf(p) == <<calls[p].id, calls[p].authCode>>

\* The call was made under a non-empty requiredLevels.
Gated(p) == calls[p].rolesLevel.t = "arr" /\ calls[p].rolesLevel.v # <<>>
MinRequired(p) == SeqMin(calls[p].rolesLevel.v)

\* The call was decided from the cached text (hit) or from the row it read
\* and wrote to the cache (miss).
Hit(p) == Done(p) /\ calls[p].ops = <<"get">> /\ calls[p].result # "error"
Miss(p) ==
  Done(p) /\ calls[p].ops = <<"get", "find", "set">> /\ calls[p].result # "error"

IsIntText(x) ==
  x.t = "str" /\ x.v # <<>> /\ \A i \in 1..Len(x.v) : IsDigit(x.v[i])

\* The effective role level of a decided call, as an integer.
HasLevel(p) == (Hit(p) /\ IsIntText(calls[p].got)) \/ Miss(p)
Level(p) ==
  IF Miss(p) THEN calls[p].auth.v ELSE ParseDigits(calls[p].got.v, 0)

Allowed(p) == Done(p) /\ calls[p].result = "allow"
Insufficient(p) == Done(p) /\ calls[p].result = "Insufficient permissions"
InvalidAuth(p) == Done(p) /\ calls[p].result = "Invalid authentication"

-----------------------------------------------------------------------------
(* C1 *)

-----------------------------------------------------------------------------
(* C2 *)

\* C2: a call under non-empty requiredLevels for a pair that has no row and
\* for which no call ever populated the cache fails with 'Invalid
\* authentication', whatever entries other pairs populated, and writes
\* nothing to the cache.
C2_NoRowIsInvalidAuth ==
  \A p \in Procs :
    ( /\ Done(p) /\ Gated(p)
      /\ store[PairOf(p)].t = "null"
      /\ populated[PairOf(p)].t = "null" ) =>
      /\ InvalidAuth(p)
      /\ calls[p].ops = <<"get", "find">>

-----------------------------------------------------------------------------
(* C3 *)

\* What an isolated call on a cold cache returns for a pair and its levels.
Isolated(pr, rolesLevel) ==
  IF store[pr].t = "null" THEN "Invalid authentication"
  ELSE IF rolesLevel.v = <<>> \/ store[pr].v < SeqMin(rolesLevel.v)
       THEN "Insufficient permissions"
       ELSE "allow"

\* Only calls for pr have written the cache since it was cold.
OnlyPopulatedBy(pr) == \A q \in Pairs \ {pr} : populated[q].t = "null"

\* C3: when only calls for one pair have run against the cold cache, in any
\* interleaving, each of them returns what an isolated call with its levels
\* returns, and once all of them have finished the pair's cache entry holds
\* the roleLevel of the pair's row.
C3_ConcurrentMissesConverge ==
  \A pr \in Pairs :
    OnlyPopulatedBy(pr) =>
      /\ \A p \in Procs :
           (Done(p) /\ PairOf(p) = pr /\ calls[p].rolesLevel.t = "arr") =>
             calls[p].result = Isolated(pr, calls[p].rolesLevel)
      /\ ( /\ \A p \in Procs : calls[p].pc \in {"idle", "done"}
           /\ \E p \in Procs : Miss(p) /\ PairOf(p) = pr ) =>
           /\ store[pr].t = "num"
           /\ cache[CacheKey(pr[1], pr[2])] = Str(ToStr(store[pr].v))
           /\ Number(cache[CacheKey(pr[1], pr[2])]) = store[pr]

\* Two calls for the same pair both missed, both read the row and both wrote
\* the cache, and no other pair has written it.
C3_Witness ==
  \E pr \in Pairs :
    /\ OnlyPopulatedBy(pr)
    /\ \A p \in Procs : Miss(p) /\ PairOf(p) = pr /\ ~calls[p].after
    /\ \E p, q \in Procs : Allowed(p) /\ Insufficient(q)

-----------------------------------------------------------------------------
(* C4 *)

\* The decision of the call that first populated the cache for the pair, had
\* it been made under rolesLevel: it read populated[pr] from the table.
FirstDecision(pr, rolesLevel) ==
  IF rolesLevel.v = <<>> \/ populated[pr].v < SeqMin(rolesLevel.v)
  THEN "Insufficient permissions"
  ELSE "allow"

\* C4: a call started after a call for its pair populated the cache returns
\* the decision of that first call under the same requiredLevels and does
\* not query the authCode table.
C4_LaterCallsRepeatFirst ==
  \A p \in Procs :
    (Done(p) /\ calls[p].after /\ calls[p].rolesLevel.t = "arr") =>
      /\ calls[p].result = FirstDecision(PairOf(p), calls[p].rolesLevel)
      /\ \A i \in 1..Len(calls[p].ops) : calls[p].ops[i] # "find"

-----------------------------------------------------------------------------
(* C5 *)

\* C5: two different (identity, sessionCode) pairs never share a cache key,
\* so a call never takes the hit path on an entry when no call for its own
\* pair ever populated the cache.
C5_KeyInjective ==
  /\ \A p \in Procs :
       Hit(p) => populated[PairOf(p)].t = "num"
  /\ \A p \in Procs, pr \in Pairs :
       (calls[p].pc # "idle" /\ pr # PairOf(p)) =>
         CacheKey(pr[1], pr[2]) # CacheKey(calls[p].id, calls[p].authCode)

-----------------------------------------------------------------------------
(* C6 *)

\* C6: a call whose requiredLevels metadata is an empty collection returns
\* allow.
C6_EmptyLevelsAllow ==
  \A p \in Procs :
    (Done(p) /\ calls[p].rolesLevel = Arr(<<>>)) => Allowed(p)

-----------------------------------------------------------------------------
(* C7 *)

\* C7: a call on a handler without required-role metadata has returned allow
\* as soon as it has started, having read neither the cache nor the authCode
\* table and written nothing to the cache.
C7_NoMetadataAllow ==
  \A p \in Procs :
    (calls[p].pc # "idle" /\ calls[p].rolesLevel.t = "undefined") =>
      /\ Allowed(p)
      /\ calls[p].ops = <<>>

\* A call without metadata was allowed for a pair that has no row while the
\* cache holds an entry.
C7_Witness ==
  \E p \in Procs :
    /\ Allowed(p) /\ calls[p].rolesLevel.t = "undefined"
    /\ store[PairOf(p)].t = "null"
    /\ \E k \in Keys : cache[k].t = "str"

-----------------------------------------------------------------------------
(* C8 *)

\* C8: a call whose effective level equals min(requiredLevels) is allowed, and
\* a call that finds the cache cold and reads a row of roleLevel 2 under a
\* minimum of 1 is allowed.
C8_EqualAllowed ==
  \A p \in Procs :
    (Gated(p) /\ HasLevel(p)) =>
      /\ (Level(p) = MinRequired(p)) => Allowed(p)
      /\ (Miss(p) /\ calls[p].auth = Num(2) /\ MinRequired(p) = 1) => Allowed(p)

\* One call allowed at the boundary from the cache, another allowed on a cold
\* cache with roleLevel 2 under minimum 1.
C8_Witness ==
  \E p, q \in Procs :
    /\ Gated(p) /\ Hit(p) /\ Level(p) = MinRequired(p) /\ Allowed(p)
    /\ Gated(q) /\ Miss(q) /\ calls[q].auth = Num(2) /\ MinRequired(q) = 1
    /\ store[PairOf(q)] = Num(2) /\ Allowed(q)

-----------------------------------------------------------------------------
(* C9 *)

\* C9: a call that gets non-empty text that is no integer from the cache
\* treats it as a miss: it queries the authCode table and is decided by the
\* row, never allowed on the unparsable text.
C9_UnparsableIsMiss ==
  \A p \in Procs :
    ( /\ Done(p) /\ Gated(p) /\ calls[p].result # "error"
      /\ calls[p].got.t = "str" /\ calls[p].got.v # <<>>
      /\ ~IsIntText(calls[p].got) ) =>
      /\ Len(calls[p].ops) >= 2 /\ calls[p].ops[2] = "find"
      /\ calls[p].auth.t = "null" => InvalidAuth(p)
      /\ calls[p].auth.t = "num" =>
           (Allowed(p) <=> calls[p].auth.v >= MinRequired(p))

-----------------------------------------------------------------------------
(* C10 *)

\* C10: a call under non-empty requiredLevels whose cache get, table lookup
\* or cache set was rejected has ended in failure, is not allowed, and has
\* issued each operation at most once, the rejected one last.
Rejected(p) ==
  /\ Done(p)
  /\ calls[p].ops \in {<<"get">>, <<"get", "find">>, <<"get", "find", "set">>}
  /\ \/ calls[p].ops = <<"get">> /\ calls[p].got.t = "undefined"
     \/ calls[p].ops = <<"get", "find">> /\ calls[p].auth.t = "undefined"
     \/ calls[p].ops = <<"get", "find", "set">> /\ calls[p].cachedRole.t # "num"

C10_FailureNeverAllows ==
  \A p \in Procs :
    /\ (Gated(p) /\ Rejected(p)) => calls[p].result = "error"
    /\ (Done(p) /\ calls[p].result = "error") =>
         /\ Rejected(p)
         /\ calls[p].ops \in
              {<<"get">>, <<"get", "find">>, <<"get", "find", "set">>}
    /\ Len(calls[p].ops) <= 3

\* A rejected cache set: the row was read and sufficient, the call failed and
\* the cache holds no entry for the key.
C10_Witness ==
  \E p \in Procs :
    /\ Gated(p) /\ Rejected(p) /\ calls[p].ops = <<"get", "find", "set">>
    /\ calls[p].auth.t = "num" /\ calls[p].auth.v >= MinRequired(p)
    /\ calls[p].result = "error"
    /\ cache[CacheKey(calls[p].id, calls[p].authCode)].t = "null"

-----------------------------------------------------------------------------
(* The threshold alone: Math.min(...rolesLevel) and the comparison *)

\* Every non-empty array of at most MaxRequired levels, in every order.
DeclaredLevels ==
  UNION {[1..n -> 1..MaxDeclared] : n \in 1..MaxRequired}

\* The guard's rest state with an empty authCode table.
InitMin ==
  /\ store = [pr \in Pairs |-> NoRow]
  /\ cache = [k \in Keys |-> Null]
  /\ calls = [p \in Procs |-> Idle]
  /\ populated = [pr \in Pairs |-> Null]
  /\ envSteps = 0
  /\ SvcInit

\* role.guard.ts:22-28: the metadata is read and minRoleLevel computed.
ComputeMin(levels) ==
  /\ minCheck = NoCheck
  /\ minCheck' = [NoCheck EXCEPT !.rolesLevel = Arr(levels),
                                 !.minRoleLevel = MathMin(Arr(levels))]
  /\ UNCHANGED <<guardVars, userVars, commentVars>>

\* role.guard.ts:58-62: a role level is compared with the threshold.
Compare(level) ==
  /\ minCheck.rolesLevel.t = "arr"
  /\ minCheck.outcome = "none"
  /\ minCheck' = [minCheck EXCEPT !.cachedRole = Num(level),
                                  !.outcome = Decide(Num(level), minCheck.rolesLevel)]
  /\ UNCHANGED <<guardVars, userVars, commentVars>>

NextMin ==
  \/ \E levels \in DeclaredLevels : ComputeMin(levels)
  \/ \E level \in 0..(MaxDeclared + 1) : Compare(level)

\* The threshold computation and comparison on every declared array.
SpecMin == InitMin /\ [][NextMin]_vars

-----------------------------------------------------------------------------
(* C11 *)

Range(s) == {s[i] : i \in 1..Len(s)}

\* The least element of a non-empty collection, whatever its order.
NumericMin(s) == CHOOSE m \in Range(s) : \A x \in Range(s) : m <= x

\* C11: for every non-empty requiredLevels, in whatever order, the threshold
\* the guard computes and compares the role level against is the numeric
\* minimum of the collection: the call is refused exactly for the levels
\* below that minimum.
C11_ThresholdIsMinimum ==
  minCheck.rolesLevel.t = "arr" =>
    /\ minCheck.minRoleLevel = Num(NumericMin(minCheck.rolesLevel.v))
    /\ minCheck.outcome # "none" =>
         ( minCheck.outcome = "Insufficient permissions"
             <=> minCheck.cachedRole.v < NumericMin(minCheck.rolesLevel.v) )

\* The array 3, 1, 5 gave threshold 1 and level 2 was let through, although
\* 2 is below the first and the last element.
C11_Witness ==
  /\ minCheck.rolesLevel = Arr(<<3, 1, 5>>)
  /\ minCheck.minRoleLevel = Num(1)
  /\ minCheck.cachedRole = Num(2)
  /\ minCheck.outcome = "allow"

-----------------------------------------------------------------------------
(* Concurrent guard calls while rows change *)

\* Pairs whose keys differ, and the gated handler they call.
StalePairs == { << <<"a">>, <<"c">> >>, << <<"a">>, <<"b", "_", "c">> >> }
StaleRoles == {Arr(<<3, 1, 2>>)}

InitStale ==
  /\ store \in {s \in [Pairs -> {NoRow} \cup {Num(n) : n \in RoleLevels}] :
                  \A pr \in Pairs \ StalePairs : s[pr] = NoRow}
  /\ cache = [k \in Keys |-> Null]
  /\ calls = [p \in Procs |-> Idle]
  /\ populated = [pr \in Pairs |-> Null]
  /\ envSteps = 0
  /\ SvcInit

NextStale ==
  \/ \E p \in Procs, pr \in StalePairs, r \in StaleRoles : Start(p, pr, r)
  \/ \E p \in Procs : CacheGet(p)
  \/ \E p \in Procs : FindAuth(p)
  \/ \E p \in Procs : CacheSet(p)
  \/ \E pr \in StalePairs, row \in {NoRow} \cup {Num(n) : n \in RoleLevels} :
        StoreChange(pr, row)

\* Two tasks calling the guard while sessions end and roles change; only the
\* guard writes the cache.
SpecStale == InitStale /\ [][NextStale]_vars

-----------------------------------------------------------------------------
(* C12 *)

\* The decision the comparison gives for a cached text.
FromCached(text, rolesLevel) ==
  IF rolesLevel.v = <<>> \/ ParseDigits(text.v, 0) < SeqMin(rolesLevel.v)
  THEN "Insufficient permissions"
  ELSE "allow"

\* C12 as stated: once a call for the pair has populated the cache, every
\* later call for the pair takes the hit path and receives the decision of
\* the level cached then, in every later state, whatever happens to the row.
C12_KeepsFirstDecision ==
  \A p \in Procs :
    (Done(p) /\ calls[p].after /\ calls[p].rolesLevel.t = "arr") =>
      /\ calls[p].ops = <<"get">>
      /\ calls[p].result = FirstDecision(PairOf(p), calls[p].rolesLevel)

\* C12 amended, the state part: a call started after a call for its pair
\* populated the cache issues the get only and is decided by the text it got.
DecidedFromCacheAlone ==
  \A p \in Procs :
    (Done(p) /\ calls[p].after /\ calls[p].rolesLevel.t = "arr") =>
      /\ calls[p].ops = <<"get">>
      /\ IsIntText(calls[p].got)
      /\ calls[p].result = FromCached(calls[p].got, calls[p].rolesLevel)

\* C12 amended, the step part: an entry is never removed, and an entry is
\* written only by the cache set of a call that missed and read a row.
WrittenOnlyOnMiss ==
  \A k \in Keys :
    /\ cache[k].t = "str" => cache'[k].t = "str"
    /\ cache'[k] # cache[k] =>
         \E p \in Procs :
           /\ calls[p].pc = "set" /\ calls[p].ops = <<"get", "find">>
           /\ calls[p].auth.t = "num"
           /\ CacheKey(calls[p].id, calls[p].authCode) = k
           /\ cache'[k] = Str(ToStr(calls[p].auth.v))

\* C12 amended: the guard writes an entry only on the miss path after a
\* successful read and never deletes or expires one; a call started once its
\* pair's entry exists takes the hit path and decides from the cached text
\* alone, so a deleted or changed row keeps being ignored without bound; the
\* cached level is replaced only by a call that missed before the entry
\* existed and writes the row it read.
C12_StaleUntilRacingWrite ==
  [][DecidedFromCacheAlone' /\ WrittenOnlyOnMiss]_vars

\* After the row was deleted or lowered below the minimum, a call is still
\* allowed from the cache.
C12_Witness ==
  \E p \in Procs :
    /\ envSteps > 0
    /\ Done(p) /\ calls[p].after /\ Hit(p) /\ Allowed(p) /\ Gated(p)
    /\ \/ store[PairOf(p)].t = "null"
       \/ store[PairOf(p)].t = "num" /\ store[PairOf(p)].v < MinRequired(p)

-----------------------------------------------------------------------------
(* UserService.updateInfomation and updateUserInfomation *)

\* !x of JavaScript: undefined, null, "" and false are falsy.
JsNot(x) ==
  \/ x.t \in {"undefined", "null"}
  \/ x.t = "str" /\ x.v = <<>>
  \/ x.t = "bool" /\ ~x.v
  \/ x.t = "num" /\ x.v = 0

\* The values a submitted UpdateProfileDto can carry under each key.
Passwords == {Undefined, Str(<<>>), Str(<<"p", "w">>), Str(<<"q">>)}
FullNames == {Undefined, Str(<<>>), Str(<<"n", "1">>)}
Actives == {Undefined, Bool(FALSE), Bool(TRUE)}
Dtos == [password : Passwords, fullName : FullNames, isActive : Actives]

\* part_001:156-161 and 204-209: the synchronous part of the forEach
\* callbacks; an empty value becomes undefined (a boolean is kept by
\* updateUserInfomation only).
Sweep(data, keepBooleans) ==
  [k \in DOMAIN data |->
     IF (~(keepBooleans /\ data[k].t = "bool")) /\ JsNot(data[k])
     THEN Undefined ELSE data[k]]

\* part_001:163-165 and 211-213: the callback of the password key calls
\* bcrypt.hash on the plaintext and suspends; forEach does not wait for it.
PendingHash(data) ==
  IF JsNot(data.password) THEN Undefined ELSE data.password

\* part_001:150-166: updateInfomation up to the issue of the user update.
UpdateInfomation(userId, data) ==
  /\ upd.pc \in {"idle", "done"}
  /\ upd' = [UpdIdle EXCEPT !.pc = "updating", !.fn = "updateInfomation",
                            !.userId = userId, !.submitted = data.password,
                            !.data = Sweep(data, FALSE),
                            !.hashing = PendingHash(data)]
  /\ UNCHANGED <<guardVars, minCheck, users, commentVars>>

\* part_001:198-214: updateUserInfomation up to the issue of the user update.
UpdateUserInfomation(userId, data) ==
  /\ upd.pc \in {"idle", "done"}
  /\ upd' =
       IF userId = ""
       THEN [UpdIdle EXCEPT !.pc = "done", !.fn = "updateUserInfomation",
                            !.submitted = data.password, !.data = data,
                            !.result = "User ID is required"]
       ELSE [UpdIdle EXCEPT !.pc = "updating", !.fn = "updateUserInfomation",
                            !.userId = userId, !.submitted = data.password,
                            !.data = Sweep(data, TRUE),
                            !.hashing = PendingHash(data)]
  /\ UNCHANGED <<guardVars, minCheck, users, commentVars>>

\* part_001:164 and 212: bcrypt.hash resolves and the callback assigns the
\* digest to data.password, whenever that is.
HashResolve ==
  /\ upd.hashing.t = "str"
  /\ upd' = [upd EXCEPT !.data.password = BcryptHash(upd.hashing.v),
                        !.hashing = Undefined]
  /\ UNCHANGED <<guardVars, minCheck, users, commentVars>>

\* prisma.user.update writes the keys of data that are not undefined.
Merge(row, data) ==
  [t |-> "row",
   password |-> IF data.password.t = "undefined" THEN row.password
                ELSE data.password,
   fullName |-> IF data.fullName.t = "undefined" THEN row.fullName
                ELSE data.fullName,
   isActive |-> IF data.isActive.t = "undefined" THEN row.isActive
                ELSE data.isActive]

\* part_001:168-188 and 216-236: the update reads data as it is then; a
\* missing user makes it throw.
UserUpdate ==
  /\ upd.pc = "updating"
  /\ IF users[upd.userId].t = "null"
     THEN /\ upd' = [upd EXCEPT !.pc = "done", !.result = "error"]
          /\ UNCHANGED users
     ELSE /\ users' = [users EXCEPT ![upd.userId] = Merge(@, upd.data)]
          /\ upd' = [upd EXCEPT !.pc = "done", !.result = "ok",
                                !.written = upd.data.password]
  /\ UNCHANGED <<guardVars, minCheck, commentVars>>

InitUser ==
  /\ store = [pr \in Pairs |-> NoRow]
  /\ cache = [k \in Keys |-> Null]
  /\ calls = [p \in Procs |-> Idle]
  /\ populated = [pr \in Pairs |-> Null]
  /\ envSteps = 0
  /\ SvcInit

NextUser ==
  \/ \E u \in UserIds, d \in Dtos : UpdateInfomation(u, d)
  \/ \E u \in UserIds \cup {""}, d \in Dtos : UpdateUserInfomation(u, d)
  \/ HashResolve
  \/ UserUpdate

\* Profile updates of one caller after another.
SpecUser == InitUser /\ [][NextUser]_vars

-----------------------------------------------------------------------------
(* C13 *)

\* C13: when the submitted data carries a non-empty password, the update
\* written to the user row carries the hash of that password, never the
\* plaintext.
C13_PasswordHashedBeforeUpdate ==
  ( /\ upd.pc = "done" /\ upd.result = "ok"
    /\ upd.submitted.t = "str" /\ upd.submitted.v # <<>> ) =>
    /\ upd.written = BcryptHash(upd.submitted.v)
    /\ users[upd.userId].password # upd.submitted

-----------------------------------------------------------------------------
(* PostCommentService: createPostComment and handleDeletePostComment *)

Id(n) == [t |-> "id", v |-> n]

\* postId, replyToId, commentId and authorId as the controllers pass them.
PostInputs == PostIds \cup {"", "ghost"}
ReplyInputs == {Undefined, Str(<<>>)} \cup {Id(n) : n \in CommentIds}
CommentInputs == {Str(<<>>)} \cup {Id(n) : n \in CommentIds}
DeleterInputs == {Undefined} \cup {Str(<<a>>) : a \in AuthorIds}

\* What the replyTo relation does to the replies of a deleted comment.
OnDeleteActions == {"SetNull", "Cascade", "Restrict"}

Live(cs, ref) == ref.t = "id" /\ cs[ref.v].t = "live"

\* The call ends; only its outcome is kept.
TaskDone(t, op, result) ==
  [TaskIdle EXCEPT !.pc = "done", !.op = op, !.result = result]

\* post-comment.service.ts:24-45: the postId check and the issue of the post
\* lookup.
CreatePostComment(t, authorId, postId, replyToId) ==
  /\ tasks[t].pc \in {"idle", "done"}
  /\ \E c \in CommentIds : comments[c].t = "free"
  /\ tasks' = [tasks EXCEPT ![t] =
       IF postId = ""
       THEN TaskDone(t, "create", "Post id is required")
       ELSE [TaskIdle EXCEPT !.pc = "findPost", !.op = "create",
                             !.authorId = Str(<<authorId>>),
                             !.postId = Str(<<postId>>),
                             !.replyToId = replyToId]]
  /\ UNCHANGED <<guardVars, minCheck, userVars, posts, comments, onDelete>>

\* post-comment.service.ts:46-61 and 67-90: the post lookup resolves.  With a
\* truthy replyToId the parent lookup is issued; without one the transaction
\* array is built, and spreading an undefined replyToId throws.
CreateFindPost(t) ==
  /\ tasks[t].pc = "findPost"
  /\ LET c == tasks[t] IN
     tasks' = [tasks EXCEPT ![t] =
       IF c.postId.v[1] \notin PostIds
       THEN TaskDone(t, "create", "Post not found")
       ELSE IF ~JsNot(c.replyToId) THEN [c EXCEPT !.pc = "findParent"]
       ELSE IF c.replyToId.t = "undefined"
            THEN TaskDone(t, "create", "error")
            ELSE [c EXCEPT !.pc = "createTx"]]
  /\ UNCHANGED <<guardVars, minCheck, userVars, posts, comments, onDelete>>

\* post-comment.service.ts:52-65: the parent lookup resolves; only id and
\* level of the parent are selected.
CreateFindParent(t) ==
  /\ tasks[t].pc = "findParent"
  /\ LET c == tasks[t] IN
     tasks' = [tasks EXCEPT ![t] =
       IF ~Live(comments, c.replyToId)
       THEN TaskDone(t, "create", "Parent comment not found")
       ELSE [c EXCEPT !.pc = "createTx",
                      !.parentComment =
                        [id |-> c.replyToId.v,
                         level |-> comments[c.replyToId.v].level]]]
  /\ UNCHANGED <<guardVars, minCheck, userVars, posts, comments, onDelete>>

\* The id the created row gets.
NextId == CHOOSE c \in CommentIds :
            comments[c].t = "free" /\ \A d \in 1..(c - 1) : comments[d].t # "free"

\* post-comment.service.ts:67-98: the transaction: commentCount + 1, the new
\* row, repliesCount + 1 on the parent.  A parent deleted meanwhile makes the
\* parent update throw and the whole transaction roll back.
CreateTx(t) ==
  /\ tasks[t].pc = "createTx"
  /\ \E c \in CommentIds : comments[c].t = "free"
  /\ LET c == tasks[t]
         reply == c.replyToId.t = "id"
     IN IF reply /\ ~Live(comments, c.replyToId)
        THEN /\ tasks' = [tasks EXCEPT ![t] = TaskDone(t, "create", "error")]
             /\ UNCHANGED <<posts, comments>>
        ELSE /\ posts' = [posts EXCEPT ![c.postId.v[1]] = @ + 1]
             /\ comments' =
                  [d \in CommentIds |->
                     IF d = NextId
                     THEN [t |-> "live", postId |-> c.postId.v[1],
                           authorId |-> c.authorId.v[1],
                           replyToId |-> IF reply THEN c.replyToId ELSE Null,
                           level |-> IF reply THEN c.parentComment.level + 1
                                     ELSE 0,
                           repliesCount |-> 0]
                     ELSE IF reply /\ d = c.replyToId.v
                          THEN [comments[d] EXCEPT !.repliesCount = @ + 1]
                          ELSE comments[d]]
             /\ tasks' = [tasks EXCEPT ![t] = TaskDone(t, "create", "ok")]
  /\ UNCHANGED <<guardVars, minCheck, userVars, onDelete>>

\* post-comment.service.ts:318-330 and 255-275: deletePostComment passes the
\* caller as authorId, deletePostCommentByAdmin passes none.
DeletePostComment(t, commentId, authorId) ==
  /\ tasks[t].pc \in {"idle", "done"}
  /\ tasks' = [tasks EXCEPT ![t] =
       IF JsNot(commentId)
       THEN TaskDone(t, "delete", "Comment id is required")
       ELSE [TaskIdle EXCEPT !.pc = "findComment", !.op = "delete",
                             !.commentId = commentId, !.authorId = authorId]]
  /\ UNCHANGED <<guardVars, minCheck, userVars, posts, comments, onDelete>>

\* post-comment.service.ts:267-283: the lookup resolves; postId and replyToId
\* of the row are kept for the transaction.
DeleteFind(t) ==
  /\ tasks[t].pc = "findComment"
  /\ LET c == tasks[t] IN
     tasks' = [tasks EXCEPT ![t] =
       IF ~Live(comments, c.commentId)
       THEN TaskDone(t, "delete", "Comment not found")
       ELSE IF ~JsNot(c.authorId)
               /\ comments[c.commentId.v].authorId # c.authorId.v[1]
            THEN TaskDone(t, "delete", "This comment is not yours")
            ELSE [c EXCEPT !.pc = "deleteTx",
                           !.commentExist =
                             [postId |-> comments[c.commentId.v].postId,
                              replyToId |-> comments[c.commentId.v].replyToId]]]
  /\ UNCHANGED <<guardVars, minCheck, userVars, posts, comments, onDelete>>

RECURSIVE Descendants(_, _)
\* The rows that reply, directly or not, to one of the rows of ids.
Descendants(cs, ids) ==
  LET more == {d \in CommentIds :
                 /\ cs[d].t = "live" /\ d \notin ids
                 /\ cs[d].replyToId.t = "id" /\ cs[d].replyToId.v \in ids}
  IN IF more = {} THEN ids ELSE Descendants(cs, ids \cup more)

Replies(cs, id) ==
  {d \in CommentIds : cs[d].t = "live" /\ cs[d].replyToId = Id(id)}

\* postComment.delete under the referential action of the replyTo relation.
DeleteRow(cs, id, action) ==
  [d \in CommentIds |->
     IF d = id THEN [t |-> "deleted"]
     ELSE IF action = "Cascade" /\ d \in Descendants(cs, {id})
          THEN [t |-> "deleted"]
          ELSE IF action = "SetNull" /\ d \in Replies(cs, id)
               THEN [cs[d] EXCEPT !.replyToId = Null]
               ELSE cs[d]]

\* post-comment.service.ts:285-315: the transaction: commentCount - 1,
\* repliesCount - 1 on the parent read before, the delete.  A row or parent
\* deleted meanwhile makes an update or the delete throw and the whole
\* transaction roll back.
DeleteTx(t) ==
  /\ tasks[t].pc = "deleteTx"
  /\ LET c == tasks[t]
         id == c.commentId.v
         parent == c.commentExist.replyToId
         reply == parent.t = "id"
     IN IF \/ reply /\ ~Live(comments, parent)
           \/ ~Live(comments, c.commentId)
           \/ onDelete = "Restrict" /\ Replies(comments, id) # {}
        THEN /\ tasks' = [tasks EXCEPT ![t] = TaskDone(t, "delete", "error")]
             /\ UNCHANGED <<posts, comments>>
        ELSE /\ posts' = [posts EXCEPT ![c.commentExist.postId] = @ - 1]
             /\ comments' =
                  DeleteRow(
                    [d \in CommentIds |->
                       IF reply /\ d = parent.v
                       THEN [comments[d] EXCEPT !.repliesCount = @ - 1]
                       ELSE comments[d]],
                    id, onDelete)
             /\ tasks' = [tasks EXCEPT ![t] = TaskDone(t, "delete", "ok")]
  /\ UNCHANGED <<guardVars, minCheck, userVars, onDelete>>

InitComments ==
  /\ store = [pr \in Pairs |-> NoRow]
  /\ cache = [k \in Keys |-> Null]
  /\ calls = [p \in Procs |-> Idle]
  /\ populated = [pr \in Pairs |-> Null]
  /\ envSteps = 0
  /\ minCheck = NoCheck
  /\ users = UsersInit
  /\ upd = UpdIdle
  /\ posts = [p \in PostIds |-> 0]
  /\ comments = [c \in CommentIds |-> NoComment]
  /\ tasks = [t \in Procs |-> TaskIdle]
  /\ onDelete \in OnDeleteActions

NextComments ==
  \/ \E t \in Procs, a \in AuthorIds, p \in PostInputs, r \in ReplyInputs :
        CreatePostComment(t, a, p, r)
  \/ \E t \in Procs : CreateFindPost(t)
  \/ \E t \in Procs : CreateFindParent(t)
  \/ \E t \in Procs : CreateTx(t)
  \/ \E t \in Procs, c \in CommentInputs, a \in DeleterInputs :
        DeletePostComment(t, c, a)
  \/ \E t \in Procs : DeleteFind(t)
  \/ \E t \in Procs : DeleteTx(t)

\* Two tasks creating and deleting comments on two posts.
SpecComments == InitComments /\ [][NextComments]_vars

-----------------------------------------------------------------------------
(* C14 *)

LiveIds == {c \in CommentIds : comments[c].t = "live"}

\* C14: every post's commentCount is the number of its existing comments,
\* every existing comment's repliesCount is the number of existing comments
\* replying to it, and no counter is negative.
C14_CountersExact ==
  /\ \A p \in PostIds :
       /\ posts[p] = Cardinality({c \in LiveIds : comments[c].postId = p})
       /\ posts[p] >= 0
  /\ \A c \in LiveIds :
       /\ comments[c].repliesCount = Cardinality(Replies(comments, c))
       /\ comments[c].repliesCount >= 0

-----------------------------------------------------------------------------
(* C15 *)

\* C15: every existing comment that replies to an existing comment is on the
\* post of that comment.
C15_ReplyOnParentsPost ==
  \A c \in LiveIds :
    Live(comments, comments[c].replyToId) =>
      comments[comments[c].replyToId.v].postId = comments[c].postId

====
